---- MODULE Spec2Model ----
(***************************************************************************)
(* uvdepsync: reconciling the dependencies a pyproject.toml declares with  *)
(* the ones its sources import.  The model follows src/uvdepsync/core.py   *)
(* and the command line of src/uvdepsync/cli.py.                           *)
(*                                                                         *)
(* A Python str is a sequence of one-character strings, so that regular    *)
(* expressions, strip(), lower(), split() and the ordering of sorted() are *)
(* computed character by character as the code computes them.              *)
(***************************************************************************)
EXTENDS Integers, Sequences, FiniteSets, TLC

(***************************************************************************)
(* Characters.  The alphabet of the model: a few letters of both cases, a  *)
(* digit, the three separators of a distribution name, the characters of a *)
(* version operator and the blank.                                         *)
(***************************************************************************)
LowerCase == {"a", "b", "o", "p", "s", "x", "y"}
UpperCase == {"A", "B", "X", "Y"}
Digit == {"1"}
AlphaNum == LowerCase \cup UpperCase \cup Digit
Separator == {"-", "_", "."}
WhiteSpace == {" "}

\* str.lower() on one character.
LowerChar(c) ==
    CASE c = "A" -> "a"
      [] c = "B" -> "b"
      [] c = "X" -> "x"
      [] c = "Y" -> "y"
      [] OTHER -> c

\* The code point of a character: the order sorted() compares strings by.
CodePoint(c) ==
    CASE c = " " -> 32
      [] c = "-" -> 45
      [] c = "." -> 46
      [] c = "1" -> 49
      [] c = "=" -> 61
      [] c = ">" -> 62
      [] c = "A" -> 65
      [] c = "B" -> 66
      [] c = "X" -> 88
      [] c = "Y" -> 89
      [] c = "_" -> 95
      [] c = "a" -> 97
      [] c = "b" -> 98
      [] c = "o" -> 111
      [] c = "p" -> 112
      [] c = "s" -> 115
      [] c = "x" -> 120
      [] c = "y" -> 121

\* str.lower()
Lower(s) == [i \in 1..Len(s) |-> LowerChar(s[i])]

\* The longest prefix of s made of characters of the class cls.
RECURSIVE Span(_, _)
Span(s, cls) ==
    IF s = <<>> \/ Head(s) \notin cls THEN <<>>
    ELSE <<Head(s)>> \o Span(Tail(s), cls)

\* s without its first n characters.
Drop(s, n) == SubSeq(s, n + 1, Len(s))

\* s reversed.
Reverse(s) == [i \in 1..Len(s) |-> s[Len(s) + 1 - i]]

\* str.strip(): leading and trailing whitespace removed.
LStrip(s) == Drop(s, Len(Span(s, WhiteSpace)))
Strip(s) == Reverse(LStrip(Reverse(LStrip(s))))

\* str.split(sep, 1): the part before the first sep (all of s when there is
\* none) and the part after it.
RECURSIVE BeforeFirst(_, _)
BeforeFirst(s, sep) ==
    IF s = <<>> \/ Head(s) = sep THEN <<>>
    ELSE <<Head(s)>> \o BeforeFirst(Tail(s), sep)
AfterFirst(s, sep) == Drop(s, Len(BeforeFirst(s, sep)) + 1)
Contains(s, c) == \E i \in 1..Len(s) : s[i] = c

\* The order of Python's str comparison: by code point, a proper prefix first.
RECURSIVE StrLess(_, _)
StrLess(s, t) ==
    IF t = <<>> THEN FALSE
    ELSE IF s = <<>> THEN TRUE
    ELSE IF Head(s) # Head(t) THEN CodePoint(Head(s)) < CodePoint(Head(t))
    ELSE StrLess(Tail(s), Tail(t))

\* The least string of a non-empty set.
MinStr(S) == CHOOSE s \in S : \A t \in S \ {s} : StrLess(s, t)

\* sorted(S) for a set S of strings: ascending.
RECURSIVE sorted(_)
sorted(S) ==
    IF S = {} THEN <<>>
    ELSE <<MinStr(S)>> \o sorted(S \ {MinStr(S)})

\* The set of the elements of a sequence.
Range(q) == {q[i] : i \in 1..Len(q)}

\* Optional values: None is the empty sequence, a value v is <<v>>.
None == <<>>
Some(v) == <<v>>

(***************************************************************************)
(* core.py: names                                                          *)
(***************************************************************************)
\* re.sub(r"[-_.]+", "-", name): every run of separators becomes one "-".
RECURSIVE CollapseSeparators(_)
CollapseSeparators(name) ==
    IF name = <<>> THEN <<>>
    ELSE IF Head(name) \in Separator
         THEN <<"-">> \o CollapseSeparators(Drop(name, Len(Span(name, Separator))))
         ELSE <<Head(name)>> \o CollapseSeparators(Tail(name))

\* normalize_dist_name: every run of "-", "_", "." becomes one "-", then the
\* result is lowercased.
normalize_dist_name(name) == Lower(CollapseSeparators(name))

\* parse_requirement_name: REQUIREMENT_NAME_PATTERN is
\* ^\s*([A-Za-z0-9][A-Za-z0-9._-]*): after the leading whitespace an
\* alphanumeric character must follow, and the group is the longest run of
\* name characters from there.  Without a match the stripped string is
\* returned.
parse_requirement_name(requirement) ==
    LET rest == LStrip(requirement)
    IN  IF rest # <<>> /\ Head(rest) \in AlphaNum
        THEN Span(rest, AlphaNum \cup Separator)
        ELSE Strip(requirement)

(***************************************************************************)
(* core.py: the source scanner                                             *)
(*                                                                         *)
(* A source file is [dir, stem, valid, stmts]: the directories from the    *)
(* project root down to it, its name without ".py", whether ast.parse      *)
(* accepts it, and its import statements wherever they are nested (ast.walk*)
(* visits the whole tree).  A statement is [kind, level, module]: kind     *)
(* "Import" for `import module` (one alias per statement), "ImportFrom"    *)
(* for `from module import ...` with `level` leading dots; the module of   *)
(* `from . import x` is the empty string (None in the AST).                *)
(***************************************************************************)
\* The members of DEFAULT_EXCLUDED_DIRS the trees of the model use.
DEFAULT_EXCLUDED_DIRS == {<<"e", "n", "v">>, <<"v", "e", "n", "v">>}

\* The name one import statement contributes, as a set: the first dotted
\* segment, lowercased; nothing for a relative import or a missing module.
ImportedName(stmt) ==
    IF stmt.kind = "Import"
    THEN {Lower(BeforeFirst(stmt.module, "."))}
    ELSE IF stmt.level # 0 \/ stmt.module = <<>>
         THEN {}
         ELSE {Lower(BeforeFirst(stmt.module, "."))}

\* extract_imports_from_source: a SyntaxError yields no import at all.
extract_imports_from_source(source) ==
    IF ~source.valid THEN {}
    ELSE UNION {ImportedName(stmt) : stmt \in source.stmts}

\* iter_python_files: os.walk prunes every directory whose name is excluded,
\* at every level.
iter_python_files(project, excluded_dirs) ==
    SelectSeq(project, LAMBDA f : Range(f.dir) \cap excluded_dirs = {})

\* collect_imports: the union over the files walked, and their number.
collect_imports(project, excluded_dirs) ==
    LET python_files == iter_python_files(project, excluded_dirs)
    IN  [imports |-> UNION {extract_imports_from_source(f) : f \in Range(python_files)},
         scanned_files |-> Len(python_files)]

\* discover_local_modules: the stems of the .py files directly in the
\* project root or directly in src/, lowercased.  (Package directories, the
\* other source of local names, do not occur in the trees of the model.)
discover_local_modules(project) ==
    {Lower(f.stem) : f \in {g \in Range(project) : g.dir = <<>> \/ g.dir = << <<"s", "r", "c">> >>}}

\* get_stdlib_modules: sys.stdlib_module_names, lowercased.
get_stdlib_modules(stdlib_module_names) == {Lower(m) : m \in stdlib_module_names}

(***************************************************************************)
(* core.py: the distribution resolver                                      *)
(***************************************************************************)
\* The candidates in the order the provider reports them, normalised: what
\* build_distribution_map would keep if it did not sort.
CandidatesInProviderOrder(distributions) ==
    LET kept == SelectSeq(distributions, LAMBDA dep : dep # <<>>)
    IN  [i \in 1..Len(kept) |-> normalize_dist_name(kept[i])]

\* build_distribution_map, line 137: the non-empty distribution names of one
\* module, normalised, without duplicates, sorted.
NormalizedCandidates(distributions) ==
    sorted({normalize_dist_name(dep) : dep \in {d \in Range(distributions) : d # <<>>}})

\* build_distribution_map: raw_map is importlib.metadata.packages_distributions(),
\* a function from module names to lists of distribution names.  (The
\* providers of the model have no two module names equal up to case, so no
\* key is assigned twice.)
build_distribution_map(raw_map) ==
    LET kept == {m \in DOMAIN raw_map : NormalizedCandidates(raw_map[m]) # <<>>}
    IN  [k \in {Lower(m) : m \in kept} |->
            NormalizedCandidates(raw_map[CHOOSE m \in kept : Lower(m) = k])]

\* The skip of infer_dependencies with the local modules forgotten.
IsSkippedStdlibOnly(module, local_modules, stdlib_modules) ==
    module \in stdlib_modules

\* infer_dependencies, lines 155-156: stdlib and local modules are skipped.
IsSkipped(module, local_modules, stdlib_modules) ==
    module \in stdlib_modules \/ module \in local_modules

\* The resolution of infer_dependencies with the distribution index asked
\* before the explicit map.
ResolveIndexFirst(module, distribution_map, explicit_map) ==
    IF module \in DOMAIN distribution_map /\ distribution_map[module] # <<>>
    THEN normalize_dist_name(distribution_map[module][1])
    ELSE IF module \in DOMAIN explicit_map /\ explicit_map[module] # <<>>
         THEN normalize_dist_name(explicit_map[module])
         ELSE normalize_dist_name(module)

\* infer_dependencies, lines 158-167: the distribution one third-party module
\* resolves to.  `if mapped_dep:` and `if dep_candidates:` are truth tests: a
\* missing key, an empty string and an empty list all fall through.
ResolveModule(module, distribution_map, explicit_map) ==
    IF module \in DOMAIN explicit_map /\ explicit_map[module] # <<>>
    THEN normalize_dist_name(explicit_map[module])
    ELSE IF module \in DOMAIN distribution_map /\ distribution_map[module] # <<>>
         THEN normalize_dist_name(distribution_map[module][1])
         ELSE normalize_dist_name(module)

\* infer_dependencies
infer_dependencies(imports, distribution_map, local_modules, stdlib_modules, explicit_map) ==
    {ResolveModule(module, distribution_map, explicit_map) :
        module \in {m \in imports : ~IsSkipped(m, local_modules, stdlib_modules)}}

(***************************************************************************)
(* The manifest.  pyproject.toml is a sequence of lines [kind, text]:      *)
(*   "project"  the [project] header with its scalar keys (name, version)  *)
(*   "open"     dependencies = [                                           *)
(*   "str"      one string of the array, text its value                    *)
(*   "int"      one entry of the array that is not a string                *)
(*   "close"    ]                                                          *)
(* which is the layout tomlkit writes for a multiline array.               *)
(***************************************************************************)
ProjectLine == [kind |-> "project", text |-> <<>>]
OpenLine == [kind |-> "open", text |-> <<>>]
CloseLine == [kind |-> "close", text |-> <<>>]
StrItem(s) == [kind |-> "str", text |-> s]
IntItem == [kind |-> "int", text |-> <<"1">>]

\* tomllib.loads / tomlkit.parse: an empty document, a [project] table
\* without the dependencies key, or a table with a closed array; anything
\* else (an array cut short) is a decode error.
TomlParse(lines) ==
    IF lines = <<>>
    THEN [ok |-> TRUE, has_project |-> FALSE, dependencies |-> None]
    ELSE IF lines = <<ProjectLine>>
    THEN [ok |-> TRUE, has_project |-> TRUE, dependencies |-> None]
    ELSE IF /\ Len(lines) >= 3
            /\ lines[1] = ProjectLine
            /\ lines[2] = OpenLine
            /\ lines[Len(lines)] = CloseLine
            /\ \A i \in 3..(Len(lines) - 1) : lines[i].kind \in {"str", "int"}
    THEN [ok |-> TRUE, has_project |-> TRUE,
          dependencies |-> Some(SubSeq(lines, 3, Len(lines) - 1))]
    ELSE [ok |-> FALSE, has_project |-> FALSE, dependencies |-> None]

\* tomlkit.dumps(document) once project_table["dependencies"] is the new
\* multiline array: one string per line; the entries that were not strings
\* went with the old array.
TomlDumps(dependencies) ==
    <<ProjectLine, OpenLine>>
        \o [i \in 1..Len(dependencies) |-> StrItem(dependencies[i])]
        \o <<CloseLine>>

\* project.get("dependencies", []) filtered by isinstance(dep, str): the
\* strings of the array, in order.
StringDependencies(document) ==
    IF document.dependencies = None THEN <<>>
    ELSE LET strings == SelectSeq(document.dependencies[1], LAMBDA item : item.kind = "str")
         IN  [i \in 1..Len(strings) |-> strings[i].text]

\* A declared name with the requirement's qualifier left in: a reader that
\* normalises the whole requirement string.
WholeRequirementName(dep) == normalize_dist_name(Strip(dep))

\* normalize_dist_name(parse_requirement_name(dep)): the name a declaration
\* is compared by (lines 179 and 235).
DeclaredName(dep) == normalize_dist_name(parse_requirement_name(dep))

\* load_declared_dependencies, given the text read from the manifest.
load_declared_dependencies(lines) ==
    LET data == TomlParse(lines)
        raw_dependencies == StringDependencies(data)
    IN  [ok |-> data.ok,
         normalized_dependencies |-> {DeclaredName(dep) : dep \in Range(raw_dependencies)},
         raw_dependencies |-> raw_dependencies]

(***************************************************************************)
(* core.py: analyze_project                                                *)
(***************************************************************************)
\* analyze_project from line 199 on.  The call returns [error, files_read,
\* analysis]: the exception it raises ("none" when it returns), the number of
\* source files it has read by then, and the Analysis (None when it raises).
\* read_text on a missing manifest raises FileNotFoundError, a cut manifest
\* makes tomllib raise; both happen in load_declared_dependencies, after the
\* scan.
AnalyzeFrom199(project, exists, lines, excluded_dirs, explicit_map, raw_map, stdlib_names) ==
    LET distribution_map == build_distribution_map(raw_map)
        stdlib_modules == get_stdlib_modules(stdlib_names)
        scan == collect_imports(project, excluded_dirs)
        local_modules == discover_local_modules(project)
        inferred == infer_dependencies(scan.imports, distribution_map, local_modules,
                                       stdlib_modules, explicit_map)
        loaded == load_declared_dependencies(lines)
        declared == loaded.normalized_dependencies
    IN  IF ~exists
        THEN [error |-> "FileNotFoundError", files_read |-> scan.scanned_files,
              analysis |-> None]
        ELSE IF ~loaded.ok
        THEN [error |-> "TOMLDecodeError", files_read |-> scan.scanned_files,
              analysis |-> None]
        ELSE [error |-> "none", files_read |-> scan.scanned_files,
              analysis |-> Some([scanned_files |-> scan.scanned_files,
                                 imports |-> scan.imports,
                                 local_modules |-> local_modules,
                                 inferred_dependencies |-> inferred,
                                 declared_dependencies |-> declared,
                                 missing_dependencies |-> inferred \ declared,
                                 unused_dependencies |-> declared \ inferred])]

\* analyze_project without its check of lines 196-197.
AnalyzeUnchecked(project, exists, lines, excluded_dirs, explicit_map, raw_map, stdlib_names) ==
    AnalyzeFrom199(project, exists, lines, excluded_dirs, explicit_map, raw_map, stdlib_names)

\* analyze_project: the manifest must exist before anything is read.
analyze_project(project, exists, lines, excluded_dirs, explicit_map, raw_map, stdlib_names) ==
    IF ~exists
    THEN [error |-> "FileNotFoundError", files_read |-> 0, analysis |-> None]
    ELSE AnalyzeFrom199(project, exists, lines, excluded_dirs, explicit_map, raw_map,
                        stdlib_names)

(***************************************************************************)
(* core.py: the sync planner                                               *)
(***************************************************************************)
\* current_map of compute_synced_dependencies: setdefault keeps, for every
\* declared name, the first declaration with that name.
current_map(current_dependencies) ==
    [dep_name \in {DeclaredName(dep) : dep \in Range(current_dependencies)} |->
        current_dependencies[
            CHOOSE i \in 1..Len(current_dependencies) :
                /\ DeclaredName(current_dependencies[i]) = dep_name
                /\ \A j \in 1..(i - 1) : DeclaredName(current_dependencies[j]) # dep_name]]

\* dict.get(key, default)
Get(map, key, default) == IF key \in DOMAIN map THEN map[key] ELSE default

\* The list compute_synced_dependencies would return if `synced` started as
\* the current list instead of as an empty one.
ComputeAppending(current_dependencies, inferred_dependencies) ==
    LET names == sorted(inferred_dependencies)
    IN  current_dependencies
            \o [i \in 1..Len(names) |->
                    Get(current_map(current_dependencies), names[i], names[i])]

\* compute_synced_dependencies
compute_synced_dependencies(current_dependencies, inferred_dependencies) ==
    LET names == sorted(inferred_dependencies)
    IN  [i \in 1..Len(names) |->
            Get(current_map(current_dependencies), names[i], names[i])]

\* The write gate with the flag ignored.
ShouldWriteWhenChanged(changed, write) == changed

\* sync_project_dependencies, line 267: `if changed and write`.
ShouldWrite(changed, write) == changed /\ write

\* sync_project_dependencies up to line 265: what it has computed before it
\* decides to write.  tomlkit.parse raises on a cut manifest.
SyncPlan(exists, lines, inferred_dependencies) ==
    LET document == TomlParse(lines)
        current_dependencies == StringDependencies(document)
        synced_dependencies ==
            compute_synced_dependencies(current_dependencies, inferred_dependencies)
    IN  IF ~exists THEN [error |-> "FileNotFoundError", before |-> <<>>, after |-> <<>>,
                         changed |-> FALSE]
        ELSE IF ~document.ok
        THEN [error |-> "TOMLDecodeError", before |-> <<>>, after |-> <<>>,
              changed |-> FALSE]
        ELSE [error |-> "none", before |-> current_dependencies,
              after |-> synced_dependencies,
              changed |-> (current_dependencies # synced_dependencies)]

(***************************************************************************)
(* cli.py                                                                  *)
(***************************************************************************)
\* One --map entry is well formed: it holds "=", and neither side is empty
\* once stripped.
ValidMapEntry(entry) ==
    /\ Contains(entry, "=")
    /\ Strip(BeforeFirst(entry, "=")) # <<>>
    /\ Strip(AfterFirst(entry, "=")) # <<>>

\* The mapping of parse_map_values over well-formed entries: the module is
\* stripped and lowercased, the dependency stripped; a later entry for the
\* same module replaces an earlier one.
RECURSIVE MapOf(_)
MapOf(entries) ==
    IF entries = <<>> THEN <<>>
    ELSE LET entry == entries[Len(entries)]
             module == Lower(Strip(BeforeFirst(entry, "=")))
             dependency == Strip(AfterFirst(entry, "="))
             earlier == MapOf(SubSeq(entries, 1, Len(entries) - 1))
         IN  [m \in DOMAIN earlier \cup {module} |->
                 IF m = module THEN dependency ELSE earlier[m]]

\* parse_map_values: ValueError on the first entry that is not well formed.
parse_map_values(entries) ==
    IF \A i \in 1..Len(entries) : ValidMapEntry(entries[i])
    THEN [ok |-> TRUE, mapping |-> MapOf(entries)]
    ELSE [ok |-> FALSE, mapping |-> <<>>]

(***************************************************************************)
(* The projects, environments and command lines of the model               *)
(***************************************************************************)
\* The longest dependencies array of an initial manifest.
MaxDeps == 2

Mod_os == <<"o", "s">>
Mod_a == <<"a">>
Mod_b == <<"b">>
Dist_x == <<"x">>
Dist_y == <<"y">>

Import(module) == [kind |-> "Import", level |-> 0, module |-> module]
ImportFrom(level, module) == [kind |-> "ImportFrom", level |-> level, module |-> module]

\* app.py: import a; from b.x import ...; from .y import ...; from . import ...
FileApp2 ==
    [dir |-> <<>>, stem |-> <<"a", "p", "p">>, valid |-> TRUE,
     stmts |-> {Import(Mod_a), ImportFrom(0, <<"b", ".", "x">>), ImportFrom(1, Dist_y),
                ImportFrom(1, <<>>)}]
\* app.py: import os; import A.x; import b
FileApp3 ==
    [dir |-> <<>>, stem |-> <<"a", "p", "p">>, valid |-> TRUE,
     stmts |-> {Import(Mod_os), Import(<<"A", ".", "x">>), Import(Mod_b)}]
\* B.py, a local module
FileB == [dir |-> <<>>, stem |-> <<"B">>, valid |-> TRUE, stmts |-> {}]
\* env/x.py: import y, in an excluded directory
FileVendored ==
    [dir |-> << <<"e", "n", "v">> >>, stem |-> <<"x">>, valid |-> TRUE,
     stmts |-> {Import(Dist_y)}]
\* s/p.py: a file ast.parse rejects
FileBroken ==
    [dir |-> << <<"s">> >>, stem |-> <<"p">>, valid |-> FALSE, stmts |-> {Import(Dist_y)}]

Projects ==
    { <<>>,
      <<FileApp2, FileB>>,
      <<FileApp3, FileVendored, FileBroken>> }

\* sys.stdlib_module_names: absent (an old interpreter) or holding os.
StdlibNames == { {}, {Mod_os} }

\* importlib.metadata.packages_distributions(): nothing installed; module a
\* installed by y and x, reported in that order; or A by X, b by an unnamed
\* distribution and x, os by y.
Providers ==
    { <<>>,
      (Mod_a :> <<Dist_y, Dist_x>>),
      (<<"A">> :> << <<"X">> >>) @@ (Mod_b :> << <<>>, Dist_x >>) @@ (Mod_os :> <<Dist_y>>) }

\* The --map arguments: none; " A = y>=1 "; os=y with b=X_x; a=x with the
\* malformed b.
MapArguments ==
    { <<>>,
      << <<" ", "A", " ", "=", " ", "y", ">", "=", "1", " ">> >>,
      << <<"o", "s", "=", "y">>, <<"b", "=", "X", "_", "x">> >>,
      << <<"a", "=", "x">>, <<"b">> >> }

\* The entries of an initial dependencies array: "x", "X>1", "y>=1", " x._x"
\* and an entry that is not a string.
Items ==
    { StrItem(Dist_x), StrItem(<<"X", ">", "1">>), StrItem(<<"y", ">", "=", "1">>),
      StrItem(<<" ", "x", ".", "_", "x">>), IntItem }

SeqsUpTo(S, n) == UNION {[1..k -> S] : k \in 0..n}

\* The manifests a run can start from: without the dependencies key, or with
\* an array of at most MaxDeps entries.
Manifests ==
    {<<ProjectLine>>}
        \cup {<<ProjectLine, OpenLine>> \o deps \o <<CloseLine>> : deps \in SeqsUpTo(Items, MaxDeps)}

(***************************************************************************)
(* State                                                                   *)
(***************************************************************************)
VARIABLES
    project,                 \* the source tree: a sequence of files
    stdlib_module_names,     \* what the interpreter reports as its stdlib
    packages_distributions,  \* what the metadata provider reports
    map_arguments,           \* the --map arguments of every invocation
    pyproject_exists,        \* whether the manifest exists
    pyproject,               \* the lines of the manifest
    pc,                      \* "idle", or where write_text stands: "open", "flush"
    command,                 \* the subcommand of the last invocation, "none" at first
    write_flag,              \* its --write
    error,                   \* how it ended: "none", "usage" or the exception raised
    exit_code,               \* its exit status, -1 while it runs
    analysis,                \* the Analysis analyze_project returned, or None
    result,                  \* the SyncResult sync_project_dependencies returned, or None
    files_read,              \* the source files the invocation has read
    plan,                    \* the locals of sync_project_dependencies while it writes
    pyproject_at_start       \* the manifest as the invocation found it

config == <<project, stdlib_module_names, packages_distributions, map_arguments>>
vars ==
    <<project, stdlib_module_names, packages_distributions, map_arguments,
      pyproject_exists, pyproject, pc, command, write_flag, error, exit_code, analysis,
      result, files_read, plan, pyproject_at_start>>

NoPlan == [error |-> "none", before |-> <<>>, after |-> <<>>, changed |-> FALSE]

Init ==
    /\ project \in Projects
    /\ stdlib_module_names \in StdlibNames
    /\ packages_distributions \in Providers
    /\ map_arguments \in MapArguments
    /\ pyproject_exists \in BOOLEAN
    /\ pyproject \in (IF pyproject_exists THEN Manifests ELSE {<<>>})
    /\ pc = "idle"
    /\ command = "none"
    /\ write_flag = FALSE
    /\ error = "none"
    /\ exit_code = 0
    /\ analysis = None
    /\ result = None
    /\ files_read = 0
    /\ plan = NoPlan
    /\ pyproject_at_start = pyproject

(***************************************************************************)
(* cli.main                                                                *)
(***************************************************************************)
\* main, lines 124-134, run on the manifest `lines`: parse_map_values, then
\* analyze_project.  parser.error on a malformed --map ends the process with
\* status 2 before anything is analysed; an exception of analyze_project
\* ends it with a traceback and status 1.
Analyze(exists, lines) ==
    LET explicit == parse_map_values(map_arguments)
        analyzed == analyze_project(project, exists, lines, DEFAULT_EXCLUDED_DIRS,
                                    explicit.mapping, packages_distributions,
                                    stdlib_module_names)
    IN  IF ~explicit.ok
        THEN [error |-> "usage", exit_code |-> 2, files_read |-> 0, analysis |-> None]
        ELSE [error |-> analyzed.error,
              exit_code |-> (IF analyzed.error = "none" THEN 0 ELSE 1),
              files_read |-> analyzed.files_read,
              analysis |-> analyzed.analysis]

\* main, lines 145-147: the exit status of check.
CheckExitCode(a) ==
    IF a.missing_dependencies # {} \/ a.unused_dependencies # {} THEN 1 ELSE 0

\* What every invocation starts with.
Begin(cmd, write) ==
    /\ pc = "idle"
    /\ command' = cmd
    /\ write_flag' = write
    /\ pyproject_at_start' = pyproject
    /\ UNCHANGED <<config, pyproject_exists>>

\* An invocation that ends in the analysis, or that only reports it.
Report(done, status) ==
    /\ error' = done.error
    /\ exit_code' = status
    /\ files_read' = done.files_read
    /\ analysis' = done.analysis
    /\ result' = None
    /\ plan' = NoPlan
    /\ UNCHANGED <<pyproject, pc>>

\* uvdepsync inspect
MainInspect ==
    LET done == Analyze(pyproject_exists, pyproject)
    IN  /\ Begin("inspect", FALSE)
        /\ Report(done, done.exit_code)

\* uvdepsync check: exit status 1 when a dependency is missing or unused.
MainCheck ==
    LET done == Analyze(pyproject_exists, pyproject)
    IN  /\ Begin("check", FALSE)
        /\ Report(done, IF done.error = "none" THEN CheckExitCode(done.analysis[1])
                        ELSE done.exit_code)

\* uvdepsync sync [--write]: sync_project_dependencies with the inferred set
\* of the analysis.  Without a write it returns at once; otherwise it goes on
\* to pyproject_path.write_text.
MainSync(write) ==
    LET done == Analyze(pyproject_exists, pyproject)
        synced == SyncPlan(pyproject_exists, pyproject,
                           done.analysis[1].inferred_dependencies)
    IN  /\ Begin("sync", write)
        /\ IF done.error # "none"
           THEN Report(done, done.exit_code)
           ELSE /\ files_read' = done.files_read
                /\ analysis' = done.analysis
                /\ UNCHANGED pyproject
                /\ IF synced.error # "none"
                   THEN /\ error' = synced.error
                        /\ exit_code' = 1
                        /\ result' = None
                        /\ plan' = NoPlan
                        /\ pc' = "idle"
                   ELSE IF ShouldWrite(synced.changed, write)
                   THEN /\ error' = "none"
                        /\ exit_code' = -1
                        /\ result' = None
                        /\ plan' = synced
                        /\ pc' = "open"
                   ELSE /\ error' = "none"
                        /\ exit_code' = 0
                        /\ result' = Some([changed |-> synced.changed, wrote |-> FALSE,
                                           before |-> synced.before,
                                           after |-> synced.after])
                        /\ plan' = NoPlan
                        /\ pc' = "idle"

(***************************************************************************)
(* pyproject_path.write_text(tomlkit.dumps(document)), line 273: the file  *)
(* is opened for writing, which truncates it, and the text is written when *)
(* the file is flushed and closed.  The call can fail, or the process be   *)
(* stopped, at either point.                                               *)
(***************************************************************************)
\* open(path, "w") truncates the manifest.
WriteOpen ==
    /\ pc = "open"
    /\ pyproject' = <<>>
    /\ pc' = "flush"
    /\ UNCHANGED <<config, pyproject_exists, command, write_flag, error, exit_code,
                   analysis, result, files_read, plan, pyproject_at_start>>

\* The text reaches the file, write_text returns, and so does the call.
WriteFlush ==
    /\ pc = "flush"
    /\ pyproject' = TomlDumps(plan.after)
    /\ pc' = "idle"
    /\ exit_code' = 0
    /\ result' = Some([changed |-> plan.changed, wrote |-> TRUE,
                       before |-> plan.before, after |-> plan.after])
    /\ plan' = NoPlan
    /\ UNCHANGED <<config, pyproject_exists, command, write_flag, error, analysis,
                   files_read, pyproject_at_start>>

\* open() raises (the file cannot be written): the manifest is untouched.
WriteOpenFails ==
    /\ pc = "open"
    /\ pc' = "idle"
    /\ error' = "OSError"
    /\ exit_code' = 1
    /\ plan' = NoPlan
    /\ UNCHANGED <<config, pyproject_exists, pyproject, command, write_flag, analysis,
                   result, files_read, pyproject_at_start>>

\* The write fails or the process stops after the truncation: the manifest
\* keeps the lines that were written by then, none or some but not all.
WriteInterrupted ==
    /\ pc = "flush"
    /\ \E n \in 0..(Len(TomlDumps(plan.after)) - 1) :
          pyproject' = SubSeq(TomlDumps(plan.after), 1, n)
    /\ pc' = "idle"
    /\ error' = "OSError"
    /\ exit_code' = 1
    /\ plan' = NoPlan
    /\ UNCHANGED <<config, pyproject_exists, command, write_flag, analysis, result,
                   files_read, pyproject_at_start>>

Next ==
    \/ MainInspect
    \/ MainCheck
    \/ \E write \in BOOLEAN : MainSync(write)
    \/ WriteOpen
    \/ WriteFlush
    \/ WriteOpenFails
    \/ WriteInterrupted

Spec == Init /\ [][Next]_vars

(***************************************************************************)
(* Properties                                                              *)
(***************************************************************************)
\* The invocation `cmd` has returned normally.
Returned(cmd) == command = cmd /\ pc = "idle" /\ error = "none"

\* What the invocation worked from: the explicit map, the distribution index,
\* the stdlib set, and the strings the manifest declared when it started.
TheExplicitMap == parse_map_values(map_arguments).mapping
TheIndex == build_distribution_map(packages_distributions)
TheStdlib == {Lower(m) : m \in stdlib_module_names}
DeclaredAtStart ==
    LET items == SelectSeq(pyproject_at_start, LAMBDA line : line.kind = "str")
    IN  [i \in 1..Len(items) |-> items[i].text]

\* The name a requirement string is compared by.
NameOf(dep) == normalize_dist_name(parse_requirement_name(dep))

\* s is not after t in the order of sorted().
StrLeq(s, t) == s = t \/ StrLess(s, t)

\* The entry sync keeps for the inferred name n, given the declarations C: the
\* first declaration named n, or n itself.
EntryFor(C, n) ==
    IF \E i \in 1..Len(C) : NameOf(C[i]) = n
    THEN C[CHOOSE i \in 1..Len(C) :
                NameOf(C[i]) = n /\ \A j \in 1..(i - 1) : NameOf(C[j]) # n]
    ELSE n

\* C1: sync is idempotent.  When sync has returned the list L for the
\* inferred set I, compute_synced_dependencies(L, I) is L again; and when the
\* manifest then holds L (sync wrote it, or found nothing to change), running
\* sync on it with the same I finds changed = false and writes nothing.
C1_SyncIdempotent ==
    (Returned("sync") /\ result # None) =>
        LET L == result[1].after
            I == analysis[1].inferred_dependencies
            again == SyncPlan(pyproject_exists, pyproject, I)
        IN  /\ compute_synced_dependencies(L, I) = L
            /\ (result[1].wrote \/ ~result[1].changed) =>
                  /\ again.error = "none"
                  /\ again.before = L
                  /\ again.after = L
                  /\ ~again.changed
                  /\ ~ShouldWrite(again.changed, TRUE)

\* C1, witness: sync --write has rewritten the manifest with a list of two
\* entries, one of them a declaration kept with its qualifier.
C1_Witness ==
    /\ Returned("sync")
    /\ result # None
    /\ result[1].wrote
    /\ Len(result[1].after) = 2
    /\ \E i \in 1..2 : result[1].after[i] \notin analysis[1].inferred_dependencies

\* C2: the synced list has exactly one entry per inferred name, in ascending
\* order of the names; the entry for n is the first current declaration whose
\* name normalises to n, verbatim, or the bare n when there is none; and no
\* current declaration whose name is not inferred appears in the list.
C2_SyncedEntries ==
    (Returned("sync") /\ result # None) =>
        LET C == result[1].before
            out == result[1].after
            I == analysis[1].inferred_dependencies
        IN  /\ Len(out) = Cardinality(I)
            /\ \E names \in [1..Len(out) -> I] :
                  /\ \A i, j \in 1..Len(out) : i < j => StrLess(names[i], names[j])
                  /\ \A i \in 1..Len(out) : out[i] = EntryFor(C, names[i])
            /\ \A i \in 1..Len(C) : NameOf(C[i]) \notin I => C[i] \notin Range(out)

\* C3: the write flag gates the rewrite.  Without --write the manifest is
\* never touched and wrote is false; before, after and changed are what the
\* manifest and the inferred set determine, whatever the flag; changed is the
\* inequality of the two lists; and the manifest is rewritten, with wrote
\* true, exactly when the flag is set and changed is true.
C3_WriteGated ==
    /\ (command # "sync" \/ ~write_flag) => (pc = "idle" /\ pyproject = pyproject_at_start)
    /\ pc # "idle" => (write_flag /\ plan.changed)
    /\ Returned("sync") =>
          /\ result # None
          /\ LET r == result[1]
                 C == DeclaredAtStart
                 I == analysis[1].inferred_dependencies
             IN  /\ r.before = C
                 /\ Len(r.after) = Cardinality(I)
                 /\ \A i \in 1..Len(r.after) : r.after[i] = EntryFor(C, sorted(I)[i])
                 /\ r.changed = (r.before # r.after)
                 /\ r.wrote = (write_flag /\ r.changed)
                 /\ r.wrote => pyproject = TomlDumps(r.after)
                 /\ ~r.wrote => pyproject = pyproject_at_start

\* C3, witness: a dry run that reports a change it has not written.
C3_Witness ==
    /\ Returned("sync")
    /\ ~write_flag
    /\ result # None
    /\ result[1].changed
    /\ ~result[1].wrote
    /\ Len(result[1].before) = 2

\* C4: the rewrite is all or nothing: when the write of sync --write has
\* failed or was interrupted, the manifest holds its complete previous
\* content or the complete new content.
C4_AllOrNothing ==
    (command = "sync" /\ pc = "idle" /\ error = "OSError") =>
        \/ pyproject = pyproject_at_start
        \/ pyproject =
              TomlDumps(compute_synced_dependencies(DeclaredAtStart,
                                                    analysis[1].inferred_dependencies))

\* The imports of the analysis that are neither stdlib nor local.
ThirdParty == analysis[1].imports \ (TheStdlib \cup analysis[1].local_modules)

\* C5: stdlib and local modules take precedence over every mapping: the
\* inferred set is the set of the resolutions of the imports that are in
\* neither set, whatever the index or the explicit map hold for the others.
C5_StdlibLocalPrecedence ==
    analysis # None =>
        analysis[1].inferred_dependencies =
            {ResolveModule(m, TheIndex, TheExplicitMap) : m \in ThirdParty}

\* C5, witness: an analysis of a project that imports a stdlib or local
\* module for which the explicit map or the index has an entry, whose
\* distribution is not inferred.
C5_Witness ==
    /\ analysis # None
    /\ \E m \in analysis[1].imports \ ThirdParty :
          /\ m \in DOMAIN TheExplicitMap \cup DOMAIN TheIndex
          /\ ResolveModule(m, TheIndex, TheExplicitMap)
                \notin analysis[1].inferred_dependencies

\* The distribution C6 expects for a third-party import.
ByPriority(m) ==
    IF m \in DOMAIN TheExplicitMap
    THEN normalize_dist_name(TheExplicitMap[m])
    ELSE IF m \in DOMAIN TheIndex /\ Len(TheIndex[m]) >= 1
         THEN normalize_dist_name(TheIndex[m][1])
         ELSE normalize_dist_name(m)

\* C6: every import that is neither stdlib nor local contributes exactly one
\* name by strict priority: the normalised explicit-map value when the map
\* defines the import, else the normalised first candidate of the index, else
\* the normalised import name; the inferred set is the set of these names.
C6_ResolutionPriority ==
    analysis # None =>
        analysis[1].inferred_dependencies = {ByPriority(m) : m \in ThirdParty}

\* C6, witness: an analysis with a third-party import that the explicit map
\* and the index both resolve, differently, and one that neither resolves.
C6_Witness ==
    /\ analysis # None
    /\ \E m \in ThirdParty :
          /\ m \in DOMAIN TheExplicitMap
          /\ m \in DOMAIN TheIndex
          /\ normalize_dist_name(TheIndex[m][1]) # normalize_dist_name(TheExplicitMap[m])
    /\ \E m \in ThirdParty : m \notin DOMAIN TheExplicitMap \cup DOMAIN TheIndex

\* The distribution names the provider reports for the import m, in its
\* order, the unnamed ones left out.
Reported(m) ==
    IF \E k \in DOMAIN packages_distributions : Lower(k) = m
    THEN SelectSeq(packages_distributions[
                       CHOOSE k \in DOMAIN packages_distributions : Lower(k) = m],
                   LAMBDA dep : dep # <<>>)
    ELSE <<>>

\* The third-party imports without an explicit override for which the
\* provider reports a candidate.
Indexed == {m \in ThirdParty : m \notin DOMAIN TheExplicitMap /\ Reported(m) # <<>>}

\* C7 as stated: without an explicit override, an import with candidates
\* resolves to the first candidate in the order the provider reports them.
C7_FirstReportedWins ==
    analysis # None =>
        \A m \in Indexed :
            normalize_dist_name(Reported(m)[1]) \in analysis[1].inferred_dependencies

\* C7, amended: without an explicit override, an import with candidates
\* resolves to the least of the normalised names of its candidates, in the
\* order of sorted(), whatever the order the provider reports them in.
C7_LeastCandidateWins ==
    analysis # None =>
        analysis[1].inferred_dependencies =
            {normalize_dist_name(TheExplicitMap[m]) : m \in ThirdParty \cap DOMAIN TheExplicitMap}
            \cup {normalize_dist_name(m) :
                    m \in {k \in ThirdParty \ DOMAIN TheExplicitMap : Reported(k) = <<>>}}
            \cup {CHOOSE d \in {normalize_dist_name(dep) : dep \in Range(Reported(m))} :
                    \A e \in {normalize_dist_name(dep) : dep \in Range(Reported(m))} :
                        StrLeq(d, e) : m \in Indexed}

\* C7, witness: an analysis of an import whose first reported candidate is
\* not the least one, and is not inferred.
C7_Witness ==
    /\ analysis # None
    /\ \E m \in Indexed :
          /\ \E i \in 2..Len(Reported(m)) :
                StrLess(normalize_dist_name(Reported(m)[i]),
                        normalize_dist_name(Reported(m)[1]))
          /\ normalize_dist_name(Reported(m)[1]) \notin analysis[1].inferred_dependencies

\* C8: missing = inferred - declared and unused = declared - inferred,
\* exactly, where declared is the set of the normalised leading name tokens
\* of the manifest's string declarations; so the two are disjoint, and both
\* are empty iff inferred = declared.
C8_ExactDifferences ==
    analysis # None =>
        LET a == analysis[1]
        IN  /\ a.declared_dependencies = {NameOf(dep) : dep \in Range(DeclaredAtStart)}
            /\ a.missing_dependencies = a.inferred_dependencies \ a.declared_dependencies
            /\ a.unused_dependencies = a.declared_dependencies \ a.inferred_dependencies
            /\ a.missing_dependencies \cap a.unused_dependencies = {}
            /\ (a.missing_dependencies = {} /\ a.unused_dependencies = {})
                  <=> (a.inferred_dependencies = a.declared_dependencies)

\* C8, witness: an analysis with a missing and an unused dependency, of a
\* manifest that declares a name with a qualifier and an entry that is not a
\* string.
C8_Witness ==
    /\ analysis # None
    /\ analysis[1].missing_dependencies # {}
    /\ analysis[1].unused_dependencies # {}
    /\ \E dep \in Range(DeclaredAtStart) : NameOf(dep) # dep
    /\ IntItem \in Range(pyproject_at_start)

\* C9: without a manifest analyze_project raises FileNotFoundError, returns
\* no Analysis, has read no source file by then, and nothing is modified.
C9_ManifestNotFound ==
    (command # "none" /\ ~pyproject_exists /\ parse_map_values(map_arguments).ok) =>
        /\ pc = "idle"
        /\ error = "FileNotFoundError"
        /\ analysis = None
        /\ result = None
        /\ files_read = 0
        /\ pyproject = pyproject_at_start

\* C9, witness: check has failed for want of a manifest in a project with
\* source files.
C9_Witness ==
    /\ command = "check"
    /\ ~pyproject_exists
    /\ error = "FileNotFoundError"
    /\ analysis = None
    /\ Len(project) >= 2

\* C10: sync converges to a clean check: once sync --write has returned, an
\* analysis of the same tree with the same configuration finds nothing
\* missing and nothing unused, and check exits 0.
C10_SyncConverges ==
    (Returned("sync") /\ write_flag) =>
        LET again == Analyze(pyproject_exists, pyproject)
        IN  /\ again.error = "none"
            /\ again.analysis[1].missing_dependencies = {}
            /\ again.analysis[1].unused_dependencies = {}
            /\ CheckExitCode(again.analysis[1]) = 0
====
